---- MODULE Spec2Model ----
(***************************************************************************)
(* Model of the evaluation tooling of the text-to-SQL project:             *)
(*   - find_mismatches.py : main() as a sequence of steps over the loaded  *)
(*     NL queries, SQL strings, record sets and error messages;            *)
(*   - the record comparison of find_mismatches.py as a pure function;     *)
(*   - evaluate_test2.py : main() of one or two concurrently running       *)
(*     instances sharing the gold record cache file;                       *)
(*   - the record preview of the reports as a pure function;               *)
(*   - load_data.py : T5Dataset and get_dataloader, and test2_inference    *)
(*     of evaluate_test2.py over the loader;                               *)
(*   - t5_utils.py : freeze_layers;                                        *)
(*   - the record F1 of compute_metrics as evaluate_test2.py reports it.   *)
(***************************************************************************)
EXTENDS Integers, Sequences, FiniteSets, TLC

VARIABLES
    \* ---- find_mismatches.py : main() ----
    pc,                 \* position of main()
    sql_primary,        \* results/t5_<type>_<exp>_dev.sql exists
    sql_alt,            \* model_output/t5_<type>_<exp>_dev.sql exists
    gold_rec_file,      \* records/ground_truth_dev.pkl exists
    rec_primary,        \* records/t5_<type>_<exp>_dev.pkl exists
    rec_alt,            \* model_output/t5_<type>_<exp>_dev.pkl exists
    nl_queries, gold_sql, model_sql,
    gold_records, model_records, error_msgs,
    model_sql_path, model_record_path,
    mismatches, error_queries,
    summary,            \* what lines 153-162 print
    mismatches_file,    \* mismatches/<exp>_mismatches.txt
    errors_file,        \* mismatches/error_<exp>.txt
    console,            \* the blocks main() prints besides the summary
    \* ---- record comparison as a pure function ----
    cmp_gold, cmp_pred, cmp_result,
    \* ---- evaluate_test2.py : main(), one entry per running instance ----
    epc,                \* position of each instance's main()
    ckpt,               \* the (model_type, exp_name) directories with best_model.pt
    exp_args,           \* args.experiments
    experiments,        \* each instance's experiments list
    saw_cache,          \* what each instance's os.path.exists(gt_record_path) said
    gold_local,         \* each instance has computed the gold records
    cache,              \* records/ground_truth_test2.pkl
    cache_log,          \* history: every write of the cache file
    eval_idx,           \* experiments each instance has evaluated
    results,            \* each instance's results list
    test2_examples,     \* number of examples of the test2 split
    loaded_models,      \* the checkpoints each instance has loaded
    pred_files,         \* the results/t5_<type>_<exp>_test2.sql files written
    \* ---- the record preview of the reports as a pure function ----
    pv_rec,             \* the row list of one side of a mismatch
    pv_file,            \* its preview in the mismatches file
    pv_console,         \* its preview on the console
    \* ---- load_data.get_dataloader and evaluate_test2.test2_inference ----
    dpc,                \* position of the dataset / loader / inference run
    split,              \* the split asked for
    batch_size,
    nl_file,            \* number of lines of data/<split>.nl
    sql_file,           \* number of lines of data/<split>.sql
    nl_texts,           \* T5Dataset.nl_texts (an example is named by its line number)
    sql_texts,          \* T5Dataset.sql_texts
    loader_order,       \* the order in which the DataLoader serves the examples
    consumed,           \* examples of the batches test2_inference has processed
    all_generated_sql,
    saved_sql,          \* the prediction file that is written, and the list returned
    \* ---- t5_utils.freeze_layers ----
    fz_pc,              \* position of the call
    num_layers,         \* len(model.encoder.block) and len(model.decoder.block)
    freeze_encoder_layers, freeze_decoder_layers,
    freeze_embeddings, freeze_lm_head,
    tied_embeddings,    \* lm_head.weight is the shared embedding's weight
    enc_grad, dec_grad, \* requires_grad of each encoder / decoder block
    shared_grad,        \* requires_grad of model.shared
    lm_head_grad,       \* requires_grad of model.lm_head
    \* ---- the record F1 of compute_metrics as used by evaluate_test2 ----
    f1_pc,
    f1_gold, f1_pred,   \* the gold and the predicted record sets, per index
    f1_scores,          \* the per-index F1 values
    f1_mean,            \* the record_f1 that compute_metrics returns
    result_f1,          \* the 'record_f1' of the results row
    \* ---- the error count of evaluate_test2 and of find_mismatches ----
    ec_msgs,            \* the error_msgs list that both programs are given
    ec_eval,            \* count and error_rate of evaluate_test2.main
    ec_fm,              \* count and rate of find_mismatches.main
    \* ---- T5Dataset.__getitem__ ----
    gi_split,           \* T5Dataset.split
    gi_sql_text,        \* sql_texts[idx], as the tokens of the text
    gi_item,            \* the tuple that __getitem__ returns
    \* ---- runs of find_mismatches.py for one experiment name ----
    run_no,             \* number of the run in progress, or of the last one
    run_pc,
    run_error_msgs, run_error_queries, run_mismatches,
    mismatches_txt,     \* mismatches/<experiment>_mismatches.txt
    errors_txt          \* mismatches/error_<experiment>.txt

fmVars == <<pc, sql_primary, sql_alt, gold_rec_file, rec_primary, rec_alt,
            nl_queries, gold_sql, model_sql, gold_records, model_records,
            error_msgs, model_sql_path, model_record_path, mismatches,
            error_queries, summary, mismatches_file, errors_file, console>>
cmpVars == <<cmp_gold, cmp_pred, cmp_result>>
evVars == <<epc, ckpt, exp_args, experiments, saw_cache, gold_local, cache,
            cache_log, eval_idx, results, test2_examples, loaded_models,
            pred_files>>
pvVars == <<pv_rec, pv_file, pv_console>>
dsVars == <<dpc, split, batch_size, nl_file, sql_file, nl_texts, sql_texts,
            loader_order, consumed, all_generated_sql, saved_sql>>
fzVars == <<fz_pc, num_layers, freeze_encoder_layers, freeze_decoder_layers,
            freeze_embeddings, freeze_lm_head, tied_embeddings, enc_grad,
            dec_grad, shared_grad, lm_head_grad>>
f1Vars == <<f1_pc, f1_gold, f1_pred, f1_scores, f1_mean, result_f1>>
ecVars == <<ec_msgs, ec_eval, ec_fm>>
giVars == <<gi_split, gi_sql_text, gi_item>>
runVars == <<run_no, run_pc, run_error_msgs, run_error_queries,
             run_mismatches, mismatches_txt, errors_txt>>
lateVars == <<ecVars, giVars, runVars>>
auxVars == <<pvVars, dsVars, fzVars, f1Vars, lateVars>>
vars == <<fmVars, cmpVars, evVars, auxVars>>

----------------------------------------------------------------------------
(* Bounds of the model *)

\* longest NL / SQL / records / error-message sequence that is loaded
MaxN == 2
\* most rows in one record set of the comparison
MaxRows == 2
\* most experiment names given on the command line
MaxExps == 2
\* most rows in a record set that is previewed
MaxPreviewRows == 11
\* most lines in a data file of a split
MaxExamples == 3
\* most blocks in the encoder and in the decoder
MaxLayers == 2
\* most examples scored by one compute_metrics call
MaxIndices == 2
\* largest batch size
MaxBatch == 2
\* longest error message list whose errors are counted
MaxMsgs == 3
\* most tokens in the SQL text of an example
MaxTokens == 5
\* most runs of find_mismatches.py for the experiment name
MaxRuns == 3
\* examples of each of these runs
RunSize == 2

----------------------------------------------------------------------------
(* Python values *)

\* None and a present value, in one shape so that they can be compared
None == [none |-> TRUE, val |-> <<>>]
Some(x) == [none |-> FALSE, val |-> x]

\* truthiness of None / a list / a string: None and the empty ones are falsy
Truthy(x) == ~x.none /\ Len(x.val) > 0

\* len(x) of a present list
PyLen(x) == Len(x.val)

Min(a, b) == IF a < b THEN a ELSE b

SeqsUpTo(S, n) == UNION {[1..k -> S] : k \in 0..n}

Range(s) == {s[k] : k \in 1..Len(s)}

\* the orderings of a finite set
Perms(S) == {s \in [1..Cardinality(S) -> S] : Range(s) = S}

\* strings are sequences of characters
Whitespace == {" ", "\n"}

RECURSIVE LStrip(_)
LStrip(s) ==
    IF s # <<>> /\ Head(s) \in Whitespace THEN LStrip(Tail(s)) ELSE s

RECURSIVE RStrip(_)
RStrip(s) ==
    IF s # <<>> /\ s[Len(s)] \in Whitespace
    THEN RStrip(SubSeq(s, 1, Len(s) - 1)) ELSE s

\* str.strip()
Strip(s) == RStrip(LStrip(s))

\* a row as a tuple or as a list of column values
TupleRow(v) == [kind |-> "tuple", vals |-> v]
ListRow(v) == [kind |-> "list", vals |-> v]

\* tuple(row)
AsTuple(row) == [kind |-> "tuple", vals |-> row.vals]

----------------------------------------------------------------------------
(* Inputs of find_mismatches.py: what the files can hold *)

\* a line of data/dev.nl
NlLines == {<<"q", "\n">>}
\* a gold query and a predicted query as read_queries returns them
GoldSqlChoices == {<<"a", " ">>}
PredSqlChoices == {<<" ", "a">>, <<"b">>}
\* the record set of one query in a pickled records list
GoldRecChoices == {Some(<<>>), Some(<<TupleRow(<<1>>), TupleRow(<<2>>)>>)}
PredRecChoices == {None, Some(<<TupleRow(<<2>>), TupleRow(<<1>>)>>)}
\* the error message of one predicted query ("" when it executed)
ErrChoices == {Some(<<>>), Some(<<"e">>)}

----------------------------------------------------------------------------
(* find_mismatches.py : the pure parts of main() *)

\* set(tuple(row) for row in rec) if rec else set()
RecSet(rec) ==
    IF Truthy(rec) THEN {AsTuple(rec.val[k]) : k \in 1..Len(rec.val)} ELSE {}

\* mutant: the two row lists compared as lists, in order
RecordsEqual_Ordered(gold_rec, pred_rec) ==
    (IF Truthy(gold_rec) THEN gold_rec.val ELSE <<>>) =
    (IF Truthy(pred_rec) THEN pred_rec.val ELSE <<>>)

\* mutant: an absent (None) side never compares equal
RecordsEqual_NoneDiffers(gold_rec, pred_rec) ==
    ~gold_rec.none /\ ~pred_rec.none /\ RecSet(gold_rec) = RecSet(pred_rec)

\* gold_rec_set != pred_rec_set, negated
RecordsEqual(gold_rec, pred_rec) == RecSet(gold_rec) = RecSet(pred_rec)

\* error_msg and error_msg.strip()
IsSqlError(msg) == Truthy(msg) /\ Strip(msg.val) # <<>>

\* gold.strip() != pred.strip(), negated
SqlEqual(gold, pred) == Strip(gold) = Strip(pred)

\* if gold_records and model_records
RecordMode(gr, mr) == Truthy(gr) /\ Truthy(mr)

\* mutant: the first assertion leaves out the NL queries
LengthsOk_NoNl(nl, gs, ms, gr, mr, em) ==
    /\ Len(gs) = Len(ms)
    /\ (Truthy(gr) => PyLen(gr) = Len(nl))
    /\ (Truthy(mr) => PyLen(mr) = Len(ms))
    /\ (Truthy(em) => PyLen(em) = Len(ms))

\* the assertions that guard classification
LengthsOk(nl, gs, ms, gr, mr, em) ==
    /\ Len(nl) = Len(gs) /\ Len(gs) = Len(ms)
    /\ (Truthy(gr) => PyLen(gr) = Len(nl))
    /\ (Truthy(mr) => PyLen(mr) = Len(ms))
    /\ (Truthy(em) => PyLen(em) = Len(ms))

\* mutant: the loop ends at the first failed prediction instead of
\* skipping it
RECURSIVE RecordMismatches_StopsAtError(_, _, _, _, _, _, _)
RecordMismatches_StopsAtError(nl, gs, ms, gr, mr, em, k) ==
    IF k = 0 THEN <<>>
    ELSE LET prev == RecordMismatches_StopsAtError(nl, gs, ms, gr, mr, em, k - 1)
         IN  IF Truthy(em) /\ \E m \in 1..k : IsSqlError(em.val[m]) THEN prev
             ELSE IF ~RecordsEqual(gr.val[k], mr.val[k])
                  THEN Append(prev, [i |-> k - 1, nl |-> nl[k], gold |-> gs[k],
                                     pred |-> ms[k], gold_rec |-> gr.val[k],
                                     pred_rec |-> mr.val[k]])
                  ELSE prev

\* the first k rounds of the loop over zip(nl, gold_sql, model_sql,
\* gold_records, model_records); round k handles index i = k - 1
RECURSIVE RecordMismatches(_, _, _, _, _, _, _)
RecordMismatches(nl, gs, ms, gr, mr, em, k) ==
    IF k = 0 THEN <<>>
    ELSE LET prev == RecordMismatches(nl, gs, ms, gr, mr, em, k - 1)
         IN  IF Truthy(em) /\ IsSqlError(em.val[k]) THEN prev
             ELSE IF ~RecordsEqual(gr.val[k], mr.val[k])
                  THEN Append(prev, [i |-> k - 1, nl |-> nl[k], gold |-> gs[k],
                                     pred |-> ms[k], gold_rec |-> gr.val[k],
                                     pred_rec |-> mr.val[k]])
                  ELSE prev

\* mutant: a differing example is put at the front of the list
RECURSIVE SqlMismatches_Prepend(_, _, _, _)
SqlMismatches_Prepend(nl, gs, ms, k) ==
    IF k = 0 THEN <<>>
    ELSE LET prev == SqlMismatches_Prepend(nl, gs, ms, k - 1)
         IN  IF ~SqlEqual(gs[k], ms[k])
             THEN <<[i |-> k - 1, nl |-> nl[k], gold |-> gs[k],
                     pred |-> ms[k], gold_rec |-> None,
                     pred_rec |-> None]>> \o prev
             ELSE prev

\* the first k rounds of the loop over zip(nl, gold_sql, model_sql)
RECURSIVE SqlMismatches(_, _, _, _)
SqlMismatches(nl, gs, ms, k) ==
    IF k = 0 THEN <<>>
    ELSE LET prev == SqlMismatches(nl, gs, ms, k - 1)
         IN  IF ~SqlEqual(gs[k], ms[k])
             THEN Append(prev, [i |-> k - 1, nl |-> nl[k], gold |-> gs[k],
                                pred |-> ms[k], gold_rec |-> None,
                                pred_rec |-> None])
             ELSE prev

\* the mismatches list
FindMismatches(nl, gs, ms, gr, mr, em) ==
    IF RecordMode(gr, mr)
    THEN RecordMismatches(nl, gs, ms, gr, mr, em,
             Min(Min(Len(nl), Len(gs)),
                 Min(Len(ms), Min(PyLen(gr), PyLen(mr)))))
    ELSE SqlMismatches(nl, gs, ms, Min(Len(nl), Min(Len(gs), Len(ms))))

\* the first k rounds of the loop over zip(nl, gold_sql, model_sql, error_msgs)
RECURSIVE ErrorQueriesUpTo(_, _, _, _, _)
ErrorQueriesUpTo(nl, gs, ms, em, k) ==
    IF k = 0 THEN <<>>
    ELSE LET prev == ErrorQueriesUpTo(nl, gs, ms, em, k - 1)
         IN  IF IsSqlError(em.val[k])
             THEN Append(prev, [i |-> k - 1, nl |-> nl[k], gold |-> gs[k],
                                pred |-> ms[k], error_msg |-> em.val[k]])
             ELSE prev

\* the error_queries list
FindErrorQueries(nl, gs, ms, em) ==
    IF Truthy(em)
    THEN ErrorQueriesUpTo(nl, gs, ms, em,
             Min(Min(Len(nl), Len(gs)), Min(Len(ms), PyLen(em))))
    ELSE <<>>

\* (len(nl_queries) - len(mismatches)) / len(nl_queries), as a fraction
MatchRate(n, mism) == [num |-> n - Len(mism), den |-> n]

\* len(error_queries) / len(nl_queries), as a fraction
ErrorRate(n, errs) == [num |-> Len(errs), den |-> n]

\* rows of a record set shown in the mismatches file
FilePreviewRows == 10
\* rows of a record set shown on the console
ConsolePreviewRows == 5

\* mutant: the suffix is also written when the list has exactly `limit` rows
Preview_SuffixAtLimit(rec, limit) ==
    IF Truthy(rec)
    THEN [count |-> Len(rec.val),
          rows |-> SubSeq(rec.val, 1, Min(limit, Len(rec.val))),
          more |-> [shown |-> Len(rec.val) >= limit,
                    k |-> IF Len(rec.val) >= limit
                          THEN Len(rec.val) - limit ELSE 0],
          empty |-> FALSE]
    ELSE [count |-> 0, rows |-> <<>>, more |-> [shown |-> FALSE, k |-> 0],
          empty |-> TRUE]

\* the lines written for one side of a mismatch: the "(<count> rows)"
\* header, rec[:limit], the "... (<k> more rows)" line, or "(empty)"
Preview(rec, limit) ==
    IF Truthy(rec)
    THEN [count |-> Len(rec.val),
          rows |-> SubSeq(rec.val, 1, Min(limit, Len(rec.val))),
          more |-> [shown |-> Len(rec.val) > limit,
                    k |-> IF Len(rec.val) > limit
                          THEN Len(rec.val) - limit ELSE 0],
          empty |-> FALSE]
    ELSE [count |-> 0, rows |-> <<>>, more |-> [shown |-> FALSE, k |-> 0],
          empty |-> TRUE]

\* no record lines are written for a mismatch of the SQL comparison
NoPreview ==
    [count |-> 0, rows |-> <<>>, more |-> [shown |-> FALSE, k |-> 0],
     empty |-> FALSE]

\* "Example idx (Index i)" and the lines below it, for each entry of
\* enumerate(mismatches, 1)
MismatchEntries(mism, record_mode, limit) ==
    [idx \in 1..Len(mism) |->
        [idx |-> idx, i |-> mism[idx].i, nl |-> mism[idx].nl,
         gold |-> mism[idx].gold, pred |-> mism[idx].pred,
         records_shown |-> record_mode,
         gold_preview |-> IF record_mode
                          THEN Preview(mism[idx].gold_rec, limit)
                          ELSE NoPreview,
         pred_preview |-> IF record_mode
                          THEN Preview(mism[idx].pred_rec, limit)
                          ELSE NoPreview]]

\* "Example idx (Index i)" and the lines below it, for each entry of
\* enumerate(error_queries, 1)
ErrorEntries(errs) ==
    [idx \in 1..Len(errs) |->
        [idx |-> idx, i |-> errs[idx].i, nl |-> errs[idx].nl,
         gold |-> errs[idx].gold, pred |-> errs[idx].pred,
         error_msg |-> errs[idx].error_msg]]

----------------------------------------------------------------------------
(* find_mismatches.py : main() step by step *)

\* before main() runs: which files exist; nothing is loaded or written
FmInit ==
    /\ pc = "start"
    /\ sql_primary \in BOOLEAN /\ sql_alt \in BOOLEAN
    /\ gold_rec_file \in BOOLEAN
    /\ rec_primary \in BOOLEAN /\ rec_alt \in BOOLEAN
    /\ ~(sql_primary /\ sql_alt) /\ ~(rec_primary /\ rec_alt)
    /\ nl_queries = <<>> /\ gold_sql = <<>> /\ model_sql = <<>>
    /\ gold_records = None /\ model_records = None /\ error_msgs = None
    /\ model_sql_path = "results" /\ model_record_path = "records"
    /\ mismatches = <<>> /\ error_queries = <<>>
    /\ summary = None /\ mismatches_file = None /\ errors_file = None
    /\ console = <<>>

\* find_mismatches is not running
FmIdle ==
    /\ pc = "idle"
    /\ sql_primary = FALSE /\ sql_alt = FALSE /\ gold_rec_file = FALSE
    /\ rec_primary = FALSE /\ rec_alt = FALSE
    /\ nl_queries = <<>> /\ gold_sql = <<>> /\ model_sql = <<>>
    /\ gold_records = None /\ model_records = None /\ error_msgs = None
    /\ model_sql_path = "results" /\ model_record_path = "records"
    /\ mismatches = <<>> /\ error_queries = <<>>
    /\ summary = None /\ mismatches_file = None /\ errors_file = None
    /\ console = <<>>

\* load the NL queries, the gold SQL and the predicted SQL, or give up when
\* no prediction file exists
LoadPredictions ==
    /\ pc = "start"
    /\ UNCHANGED <<cmpVars, evVars, auxVars>>
    /\ \E nl \in SeqsUpTo(NlLines, MaxN), gs \in SeqsUpTo(GoldSqlChoices, MaxN) :
          /\ nl_queries' = [k \in 1..Len(nl) |-> Strip(nl[k])]
          /\ gold_sql' = gs
    /\ IF sql_primary
       THEN /\ \E ms \in SeqsUpTo(PredSqlChoices, MaxN) : model_sql' = ms
            /\ model_sql_path' = model_sql_path
            /\ pc' = "sql_loaded"
            /\ console' = console
       ELSE IF sql_alt
       THEN /\ \E ms \in SeqsUpTo(PredSqlChoices, MaxN) : model_sql' = ms
            /\ model_sql_path' = "model_output"
            /\ pc' = "sql_loaded"
            /\ console' = console
       ELSE /\ model_sql' = model_sql
            /\ model_sql_path' = model_sql_path
            /\ pc' = "not_found"
            /\ console' = <<[block |-> "not_found",
                             tried |-> <<model_sql_path, "model_output">>]>>
    /\ UNCHANGED <<sql_primary, sql_alt, gold_rec_file, rec_primary, rec_alt,
                   gold_records, model_records, error_msgs, model_record_path,
                   mismatches, error_queries, summary, mismatches_file,
                   errors_file>>

\* mutant: the run goes on to the records after the 'not found' message
LoadRecords_AfterNotFound ==
    /\ pc \in {"sql_loaded", "not_found"}
    /\ UNCHANGED <<cmpVars, evVars, auxVars>>
    /\ IF gold_rec_file
       THEN \E gr \in SeqsUpTo(GoldRecChoices, MaxN) : gold_records' = Some(gr)
       ELSE gold_records' = None
    /\ IF rec_primary \/ rec_alt
       THEN /\ \E mr \in SeqsUpTo(PredRecChoices, MaxN),
                  em \in SeqsUpTo(ErrChoices, MaxN) :
                  /\ model_records' = Some(mr)
                  /\ error_msgs' = Some(em)
            /\ model_record_path' =
                  IF rec_primary THEN model_record_path ELSE "model_output"
       ELSE /\ model_records' = None
            /\ error_msgs' = None
            /\ model_record_path' = model_record_path
    /\ pc' = "records_loaded"
    /\ UNCHANGED <<sql_primary, sql_alt, gold_rec_file, rec_primary, rec_alt,
                   nl_queries, gold_sql, model_sql, model_sql_path,
                   mismatches, error_queries, summary, mismatches_file,
                   errors_file, console>>

\* load the gold records and the model records with their error messages
LoadRecords ==
    /\ pc = "sql_loaded"
    /\ UNCHANGED <<cmpVars, evVars, auxVars>>
    /\ IF gold_rec_file
       THEN \E gr \in SeqsUpTo(GoldRecChoices, MaxN) : gold_records' = Some(gr)
       ELSE gold_records' = None
    /\ IF rec_primary \/ rec_alt
       THEN /\ \E mr \in SeqsUpTo(PredRecChoices, MaxN),
                  em \in SeqsUpTo(ErrChoices, MaxN) :
                  /\ model_records' = Some(mr)
                  /\ error_msgs' = Some(em)
            /\ model_record_path' =
                  IF rec_primary THEN model_record_path ELSE "model_output"
       ELSE /\ model_records' = None
            /\ error_msgs' = None
            /\ model_record_path' = model_record_path
    /\ pc' = "records_loaded"
    /\ UNCHANGED <<sql_primary, sql_alt, gold_rec_file, rec_primary, rec_alt,
                   nl_queries, gold_sql, model_sql, model_sql_path,
                   mismatches, error_queries, summary, mismatches_file,
                   errors_file, console>>

\* the length assertions: an AssertionError ends the run
VerifyLengths ==
    /\ pc = "records_loaded"
    /\ UNCHANGED <<cmpVars, evVars, auxVars>>
    /\ pc' = IF LengthsOk(nl_queries, gold_sql, model_sql,
                          gold_records, model_records, error_msgs)
             THEN "verified" ELSE "aborted"
    /\ UNCHANGED <<sql_primary, sql_alt, gold_rec_file, rec_primary, rec_alt,
                   nl_queries, gold_sql, model_sql, gold_records,
                   model_records, error_msgs, model_sql_path,
                   model_record_path, mismatches, error_queries, summary,
                   mismatches_file, errors_file, console>>

\* mutant: classification replaces a missing (None) predicted record set by
\* an empty list in the loaded model records
Classify_NormalisesInPlace ==
    /\ pc = "verified"
    /\ UNCHANGED <<cmpVars, evVars, auxVars>>
    /\ mismatches' = FindMismatches(nl_queries, gold_sql, model_sql,
                                    gold_records, model_records, error_msgs)
    /\ error_queries' = FindErrorQueries(nl_queries, gold_sql, model_sql,
                                         error_msgs)
    /\ model_records' =
          IF model_records.none THEN model_records
          ELSE Some([k \in 1..Len(model_records.val) |->
                       IF model_records.val[k].none THEN Some(<<>>)
                       ELSE model_records.val[k]])
    /\ pc' = "classified"
    /\ UNCHANGED <<sql_primary, sql_alt, gold_rec_file, rec_primary, rec_alt,
                   nl_queries, gold_sql, model_sql, gold_records,
                   error_msgs, model_sql_path,
                   model_record_path, summary, mismatches_file, errors_file,
                   console>>

\* build the mismatches list and the error_queries list
Classify ==
    /\ pc = "verified"
    /\ UNCHANGED <<cmpVars, evVars, auxVars>>
    /\ mismatches' = FindMismatches(nl_queries, gold_sql, model_sql,
                                    gold_records, model_records, error_msgs)
    /\ error_queries' = FindErrorQueries(nl_queries, gold_sql, model_sql,
                                         error_msgs)
    /\ pc' = "classified"
    /\ UNCHANGED <<sql_primary, sql_alt, gold_rec_file, rec_primary, rec_alt,
                   nl_queries, gold_sql, model_sql, gold_records,
                   model_records, error_msgs, model_sql_path,
                   model_record_path, summary, mismatches_file, errors_file,
                   console>>

\* print the totals and the rates; the division raises ZeroDivisionError
\* when there are no queries
PrintSummary ==
    /\ pc = "classified"
    /\ UNCHANGED <<cmpVars, evVars, auxVars>>
    /\ IF Len(nl_queries) = 0
       THEN /\ pc' = "crashed"
            /\ summary' = summary
       ELSE /\ pc' = "summarised"
            /\ summary' = Some(
                 [total |-> Len(nl_queries),
                  mode |-> IF RecordMode(gold_records, model_records)
                           THEN "record" ELSE "sql",
                  mismatch_count |-> Len(mismatches),
                  match_rate |-> MatchRate(Len(nl_queries), mismatches),
                  errors_shown |-> Truthy(error_msgs),
                  error_count |-> Len(error_queries),
                  error_rate |-> ErrorRate(Len(nl_queries), error_queries)])
    /\ UNCHANGED <<sql_primary, sql_alt, gold_rec_file, rec_primary, rec_alt,
                   nl_queries, gold_sql, model_sql, gold_records,
                   model_records, error_msgs, model_sql_path,
                   model_record_path, mismatches, error_queries,
                   mismatches_file, errors_file, console>>

\* write the mismatches report, and the error report when there are errors
WriteReports ==
    /\ pc = "summarised"
    /\ UNCHANGED <<cmpVars, evVars, auxVars>>
    /\ mismatches_file' = Some(
         [mode |-> IF RecordMode(gold_records, model_records)
                   THEN "record" ELSE "sql",
          total |-> Len(nl_queries),
          mismatch_count |-> Len(mismatches),
          match_rate |-> MatchRate(Len(nl_queries), mismatches),
          entries |-> MismatchEntries(mismatches,
                         RecordMode(gold_records, model_records),
                         FilePreviewRows)])
    /\ errors_file' =
         IF Truthy(error_msgs) /\ error_queries # <<>>
         THEN Some([total |-> Len(nl_queries),
                    error_count |-> Len(error_queries),
                    error_rate |-> ErrorRate(Len(nl_queries), error_queries),
                    entries |-> ErrorEntries(error_queries)])
         ELSE errors_file
    /\ pc' = "reported"
    /\ UNCHANGED <<sql_primary, sql_alt, gold_rec_file, rec_primary, rec_alt,
                   nl_queries, gold_sql, model_sql, gold_records,
                   model_records, error_msgs, model_sql_path,
                   model_record_path, mismatches, error_queries, summary,
                   console>>

\* print the errors and the mismatches to the console; main() returns
PrintDetails ==
    /\ pc = "reported"
    /\ UNCHANGED <<cmpVars, evVars, auxVars>>
    /\ console' =
         (IF Truthy(error_msgs) /\ error_queries # <<>>
          THEN <<[block |-> "errors",
                  error_count |-> Len(error_queries),
                  entries |-> ErrorEntries(error_queries)]>>
          ELSE <<>>) \o
         <<[block |-> "mismatches",
            mode |-> IF RecordMode(gold_records, model_records)
                     THEN "record" ELSE "sql",
            mismatch_count |-> Len(mismatches),
            entries |-> MismatchEntries(mismatches,
                           RecordMode(gold_records, model_records),
                           ConsolePreviewRows)]>>
    /\ pc' = "done"
    /\ UNCHANGED <<sql_primary, sql_alt, gold_rec_file, rec_primary, rec_alt,
                   nl_queries, gold_sql, model_sql, gold_records,
                   model_records, error_msgs, model_sql_path,
                   model_record_path, mismatches, error_queries, summary,
                   mismatches_file, errors_file>>

----------------------------------------------------------------------------
(* the record comparison applied to two record sets *)

\* rows and record sets the comparison is applied to
Rows == {TupleRow(<<1>>), TupleRow(<<2>>), ListRow(<<1>>)}
RecordLists == {None} \cup {Some(s) : s \in SeqsUpTo(Rows, MaxRows)}

CmpIdle == cmp_gold = None /\ cmp_pred = None /\ cmp_result = "none"

CmpInit ==
    /\ cmp_gold \in RecordLists
    /\ cmp_pred \in RecordLists
    /\ cmp_result = "none"

\* lines 134-137 on one pair of record sets
Compare ==
    /\ cmp_result = "none"
    /\ cmp_result' = IF RecordsEqual(cmp_gold, cmp_pred) THEN "equal" ELSE "differ"
    /\ UNCHANGED <<cmp_gold, cmp_pred, fmVars, evVars, auxVars>>

----------------------------------------------------------------------------
(* load_data.py : T5Dataset and get_dataloader; evaluate_test2.py :
   test2_inference over the loader *)

Splits == {"train", "dev", "test", "test2"}

\* load_lines: one entry per line of the file; line k is named k
LoadLines(n) == [k \in 1..n |-> k]

\* mutant: the dataset is built whatever the two line counts are
DatasetLengthsOk_Always(nl, sql) == TRUE

\* assert len(self.nl_texts) == len(self.sql_texts)
DatasetLengthsOk(nl, sql) == Len(nl) = Len(sql)

\* T5Dataset.__len__
DatasetLen(nl) == Len(nl.val)

\* shuffle = split == "train"
Shuffle(sp) == sp = "train"

\* the number of components of a batch: normal_collate_fn returns five
\* tensors, test_collate_fn three; get_dataloader picks normal_collate_fn
\* for every split other than "test"
CollateArity(sp) == IF sp # "test" THEN 5 ELSE 3

\* encoder_input, encoder_mask, initial_decoder_inputs = batch
UnpackOk(arity) == arity = 3

\* the orders in which a DataLoader over n examples can serve them
LoaderOrders(n, shuffle) ==
    IF shuffle THEN Perms(1..n) ELSE {[k \in 1..n |-> k]}

\* tokenizer.batch_decode(model.generate(...)): one string per input row,
\* the model's prediction for that example
Generated(example) == [sql_for |-> example]

\* save_queries_and_records(queries, sql_path, record_path): the prediction
\* file holds one SQL string per line, line order = example order
QueriesFile(queries) == [k \in 1..Len(queries) |-> queries[k]]

\* no dataset is being loaded
DsIdle ==
    /\ dpc = "idle" /\ split = "test" /\ batch_size = 1
    /\ nl_file = 0 /\ sql_file = 0
    /\ nl_texts = None /\ sql_texts = None
    /\ loader_order = <<>> /\ consumed = 0
    /\ all_generated_sql = <<>> /\ saved_sql = None

\* before get_dataloader(batch_size, split): the two data files of the split
DsInit ==
    /\ dpc = "start"
    /\ split \in Splits /\ batch_size \in 1..MaxBatch
    /\ nl_file \in 0..MaxExamples /\ sql_file \in 0..MaxExamples
    /\ nl_texts = None /\ sql_texts = None
    /\ loader_order = <<>> /\ consumed = 0
    /\ all_generated_sql = <<>> /\ saved_sql = None

\* T5Dataset(data_folder, split): load the lines; the assertion on the two
\* lengths ends the construction with an AssertionError
T5DatasetInit ==
    /\ dpc = "start"
    /\ nl_texts' = Some(LoadLines(nl_file))
    /\ IF split # "test"
       THEN /\ sql_texts' = Some(LoadLines(sql_file))
            /\ dpc' = IF DatasetLengthsOk(LoadLines(nl_file), LoadLines(sql_file))
                      THEN "built" ELSE "assert_failed"
       ELSE /\ sql_texts' = None
            /\ dpc' = "built"
    /\ UNCHANGED <<split, batch_size, nl_file, sql_file, loader_order, consumed,
                   all_generated_sql, saved_sql, fmVars, cmpVars, evVars,
                   pvVars, fzVars, f1Vars, lateVars>>

\* DataLoader(dset, batch_size, shuffle, collate_fn): the sampler's order
\* over range(len(dset))
MakeDataLoader ==
    /\ dpc = "built"
    /\ loader_order' \in LoaderOrders(DatasetLen(nl_texts), Shuffle(split))
    /\ dpc' = "loaded"
    /\ UNCHANGED <<split, batch_size, nl_file, sql_file, nl_texts, sql_texts,
                   consumed, all_generated_sql, saved_sql, fmVars, cmpVars,
                   evVars, pvVars, fzVars, f1Vars, lateVars>>

\* one round of the loop of test2_inference: unpack the next batch (a
\* ValueError when it has not three components), generate, decode, extend
InferBatch ==
    /\ dpc = "loaded"
    /\ consumed < Len(loader_order)
    /\ LET batch == SubSeq(loader_order, consumed + 1,
                           Min(consumed + batch_size, Len(loader_order)))
       IN  IF UnpackOk(CollateArity(split))
           THEN /\ all_generated_sql' = all_generated_sql \o
                       [k \in 1..Len(batch) |-> Generated(batch[k])]
                /\ consumed' = consumed + Len(batch)
                /\ dpc' = dpc
           ELSE /\ dpc' = "unpack_failed"
                /\ UNCHANGED <<all_generated_sql, consumed>>
    /\ UNCHANGED <<split, batch_size, nl_file, sql_file, nl_texts, sql_texts,
                   loader_order, saved_sql, fmVars, cmpVars, evVars, pvVars,
                   fzVars, f1Vars, lateVars>>

\* the loop is over: save_queries_and_records(all_generated_sql, ...) and
\* return all_generated_sql
SaveQueries ==
    /\ dpc = "loaded"
    /\ consumed = Len(loader_order)
    /\ saved_sql' = Some([file |-> QueriesFile(all_generated_sql),
                          returned |-> all_generated_sql])
    /\ dpc' = "saved"
    /\ UNCHANGED <<split, batch_size, nl_file, sql_file, nl_texts, sql_texts,
                   loader_order, consumed, all_generated_sql, fmVars, cmpVars,
                   evVars, pvVars, fzVars, f1Vars, lateVars>>

----------------------------------------------------------------------------
(* evaluate_test2.py : main() of each running instance *)

Inst == {1, 2}
ModelTypes == <<"ft_experiments", "scr_experiments">>
ExpNames == {"e1", "e2"}

NoCache == [exists |-> FALSE, by |-> 0, gen |-> 0]
OldCache == [exists |-> TRUE, by |-> 0, gen |-> 0]

\* the test2 split is empty, or has examples
Test2Sizes == {0, 1}

\* mutant: the gold records are recreated whether or not the file exists
CacheMissing_Always(c) == TRUE

\* not os.path.exists(gt_record_path)
CacheMissing(c) == ~c.exists

\* the loop over args.experiments: the first model type that has the
\* experiment's best_model.pt, ft_experiments before scr_experiments
RECURSIVE ResolveNamed(_, _)
ResolveNamed(names, dirs) ==
    IF names = <<>> THEN <<>>
    ELSE LET n == Head(names)
             rest == ResolveNamed(Tail(names), dirs)
         IN  IF <<ModelTypes[1], n>> \in dirs THEN <<<<ModelTypes[1], n>>>> \o rest
             ELSE IF <<ModelTypes[2], n>> \in dirs
                  THEN <<<<ModelTypes[2], n>>>> \o rest
                  ELSE rest

\* find_experiments: the ft_experiments directories, then the
\* scr_experiments ones, each in the order os.listdir gives
FoundExperiments(dirs) ==
    LET names(t) == {n \in ExpNames : <<t, n>> \in dirs}
        listed(t) == {[k \in 1..Len(p) |-> <<t, p[k]>>] : p \in Perms(names(t))}
    IN  {f \o s : f \in listed(ModelTypes[1]), s \in listed(ModelTypes[2])}

\* compute_metrics(gt_sql_path, model_sql_path, gt_record_path, ...): the gold
\* records it scores against are what the file at gt_record_path holds
GoldRecordsRead(c) == c

\* 'ft' if 'ft' in model_type else 'scr'
ModelTypeShort(t) == IF t = "ft_experiments" THEN "ft" ELSE "scr"

\* the instances in `active` are about to run; the others never run
EvInit(active) ==
    /\ epc = [i \in Inst |-> IF i \in active THEN "start" ELSE "idle"]
    /\ ckpt \in SUBSET {<<ModelTypes[t], n>> : t \in 1..2, n \in ExpNames}
    /\ exp_args \in {None} \cup
          {Some(s) : s \in SeqsUpTo(ExpNames, MaxExps) \ {<<>>}}
    /\ experiments = [i \in Inst |-> <<>>]
    /\ saw_cache = [i \in Inst |-> FALSE]
    /\ gold_local = [i \in Inst |-> FALSE]
    /\ cache \in {NoCache, OldCache}
    /\ cache_log = <<>>
    /\ eval_idx = [i \in Inst |-> 0]
    /\ results = [i \in Inst |-> <<>>]
    /\ test2_examples \in Test2Sizes
    /\ loaded_models = [i \in Inst |-> <<>>]
    /\ pred_files = {}

\* evaluate_test2 is not running
EvIdle ==
    /\ epc = [i \in Inst |-> "idle"]
    /\ ckpt = {} /\ exp_args = None
    /\ experiments = [i \in Inst |-> <<>>]
    /\ saw_cache = [i \in Inst |-> FALSE]
    /\ gold_local = [i \in Inst |-> FALSE]
    /\ cache = NoCache /\ cache_log = <<>>
    /\ eval_idx = [i \in Inst |-> 0]
    /\ results = [i \in Inst |-> <<>>]
    /\ test2_examples = 0
    /\ loaded_models = [i \in Inst |-> <<>>]
    /\ pred_files = {}

\* build the experiments list; return when it is empty
ResolveExperiments(i) ==
    /\ epc[i] = "start"
    /\ \E exps \in (IF Truthy(exp_args)
                    THEN {ResolveNamed(exp_args.val, ckpt)}
                    ELSE FoundExperiments(ckpt)) :
          /\ experiments' = [experiments EXCEPT ![i] = exps]
          /\ epc' = [epc EXCEPT ![i] =
                        IF exps = <<>> THEN "no_experiments" ELSE "check_cache"]
    /\ UNCHANGED <<ckpt, exp_args, saw_cache, gold_local, cache, cache_log,
                   eval_idx, results, test2_examples, loaded_models,
                   pred_files, fmVars, cmpVars, auxVars>>

\* if not os.path.exists(gt_record_path)
CheckCache(i) ==
    /\ epc[i] = "check_cache"
    /\ saw_cache' = [saw_cache EXCEPT ![i] = cache.exists]
    /\ epc' = [epc EXCEPT ![i] =
                  IF CacheMissing(cache) THEN "compute_gold" ELSE "evaluate"]
    /\ UNCHANGED <<ckpt, exp_args, experiments, gold_local, cache, cache_log,
                   eval_idx, results, test2_examples, loaded_models,
                   pred_files, fmVars, cmpVars, auxVars>>

\* read data/test2.sql and run compute_records on the gold queries
ComputeGold(i) ==
    /\ epc[i] = "compute_gold"
    /\ gold_local' = [gold_local EXCEPT ![i] = TRUE]
    /\ epc' = [epc EXCEPT ![i] = "write_cache"]
    /\ UNCHANGED <<ckpt, exp_args, experiments, saw_cache, cache, cache_log,
                   eval_idx, results, test2_examples, loaded_models,
                   pred_files, fmVars, cmpVars, auxVars>>

\* open(gt_record_path, 'wb') and pickle.dump: creates or overwrites the file
WriteCache(i) ==
    /\ epc[i] = "write_cache"
    /\ cache' = [exists |-> TRUE, by |-> i, gen |-> cache.gen + 1]
    /\ cache_log' = Append(cache_log, [by |-> i, existed |-> cache.exists,
                                       evaluated |-> eval_idx[i]])
    /\ epc' = [epc EXCEPT ![i] = "evaluate"]
    /\ UNCHANGED <<ckpt, exp_args, experiments, saw_cache, gold_local,
                   eval_idx, results, test2_examples, loaded_models,
                   pred_files, fmVars, cmpVars, auxVars>>

\* one round of the loop over experiments: load the checkpoint, run
\* test2_inference (a ValueError on the first batch when a batch has not the
\* three components it unpacks), then compute_metrics against the gold
\* records file
EvaluateExperiment(i) ==
    /\ epc[i] = "evaluate"
    /\ eval_idx[i] < Len(experiments[i])
    /\ LET e == experiments[i][eval_idx[i] + 1]
       IN  /\ loaded_models' = [loaded_models EXCEPT ![i] = Append(@, e)]
           /\ IF test2_examples > 0 /\ ~UnpackOk(CollateArity("test2"))
              THEN /\ epc' = [epc EXCEPT ![i] = "crashed"]
                   /\ UNCHANGED <<results, eval_idx, pred_files>>
              ELSE /\ pred_files' =
                         pred_files \cup {<<ModelTypeShort(e[1]), e[2]>>}
                   /\ results' = [results EXCEPT ![i] =
                         Append(@, [experiment |-> e[2],
                                    model_type |-> ModelTypeShort(e[1]),
                                    gold |-> GoldRecordsRead(cache)])]
                   /\ eval_idx' = [eval_idx EXCEPT ![i] = @ + 1]
                   /\ epc' = epc
    /\ UNCHANGED <<ckpt, exp_args, experiments, saw_cache, gold_local,
                   cache, cache_log, test2_examples, fmVars, cmpVars, auxVars>>

\* the loop is over: print the summary table; main() returns
PrintResults(i) ==
    /\ epc[i] = "evaluate"
    /\ eval_idx[i] = Len(experiments[i])
    /\ epc' = [epc EXCEPT ![i] = "done"]
    /\ UNCHANGED <<ckpt, exp_args, experiments, saw_cache, gold_local, cache,
                   cache_log, eval_idx, results, test2_examples, loaded_models,
                   pred_files, fmVars, cmpVars, auxVars>>

----------------------------------------------------------------------------
(* the record preview of the reports applied to one row list *)

\* one side of a mismatch: None, or a list of rows
PreviewRowChoices == {TupleRow(<<1>>), TupleRow(<<2>>)}
PreviewLists ==
    {None} \cup {Some(r) : r \in SeqsUpTo(PreviewRowChoices, MaxPreviewRows)}

\* no preview is being rendered
PvIdle == pv_rec = None /\ pv_file = None /\ pv_console = None

PvInit == pv_rec \in PreviewLists /\ pv_file = None /\ pv_console = None

\* the record lines of the mismatches file
WritePreview ==
    /\ pv_file.none
    /\ pv_file' = Some(Preview(pv_rec, FilePreviewRows))
    /\ UNCHANGED <<pv_rec, pv_console, fmVars, cmpVars, evVars, dsVars,
                   fzVars, f1Vars, lateVars>>

\* the record lines of the console listing
PrintPreview ==
    /\ pv_console.none
    /\ pv_console' = Some(Preview(pv_rec, ConsolePreviewRows))
    /\ UNCHANGED <<pv_rec, pv_file, fmVars, cmpVars, evVars, dsVars,
                   fzVars, f1Vars, lateVars>>


----------------------------------------------------------------------------
(* t5_utils.py : freeze_layers *)

\* the values given for freeze_encoder_layers / freeze_decoder_layers: None,
\* the string "all", or a list of indices (one of them beyond the blocks)
NoLayers == [kind |-> "none", idx |-> {}]
AllLayers == [kind |-> "all", idx |-> {}]
LayerList(S) == [kind |-> "list", idx |-> S]
FreezeArgs == {NoLayers, AllLayers} \cup {LayerList(S) : S \in SUBSET (0..MaxLayers)}

\* requires_grad of the n blocks after the branch for one argument: nothing
\* for None, every block for "all", the blocks i in the list for a
\* non-empty list
FrozenBlocks(arg, n, grad) ==
    IF arg.kind # "none"
    THEN IF arg.kind = "all"
         THEN [i \in 0..(n - 1) |-> FALSE]
         ELSE IF arg.kind = "list" /\ Cardinality(arg.idx) > 0
              THEN [i \in 0..(n - 1) |-> IF i \in arg.idx THEN FALSE ELSE grad[i]]
              ELSE grad
    ELSE grad

\* freeze_layers is not called
FzIdle ==
    /\ fz_pc = "idle" /\ num_layers = 1
    /\ freeze_encoder_layers = NoLayers /\ freeze_decoder_layers = NoLayers
    /\ freeze_embeddings = FALSE /\ freeze_lm_head = FALSE
    /\ tied_embeddings = FALSE
    /\ enc_grad = [i \in 0..0 |-> TRUE] /\ dec_grad = [i \in 0..0 |-> TRUE]
    /\ shared_grad = TRUE /\ lm_head_grad = TRUE

\* a freshly initialised model, all of whose parameters are trainable, and
\* the arguments of the call
FzInit ==
    /\ fz_pc = "start" /\ num_layers \in 1..MaxLayers
    /\ freeze_encoder_layers \in FreezeArgs
    /\ freeze_decoder_layers \in FreezeArgs
    /\ freeze_embeddings \in BOOLEAN /\ freeze_lm_head \in BOOLEAN
    /\ tied_embeddings \in BOOLEAN
    /\ enc_grad = [i \in 0..(num_layers - 1) |-> TRUE]
    /\ dec_grad = [i \in 0..(num_layers - 1) |-> TRUE]
    /\ shared_grad = TRUE /\ lm_head_grad = TRUE

\* freeze_layers(model, freeze_encoder_layers, freeze_decoder_layers,
\*               freeze_embeddings, freeze_lm_head)
FreezeLayers ==
    /\ fz_pc = "start"
    /\ enc_grad' = FrozenBlocks(freeze_encoder_layers, num_layers, enc_grad)
    /\ dec_grad' = FrozenBlocks(freeze_decoder_layers, num_layers, dec_grad)
    /\ shared_grad' =
          IF freeze_embeddings \/ (tied_embeddings /\ freeze_lm_head)
          THEN FALSE ELSE shared_grad
    /\ lm_head_grad' =
          IF freeze_lm_head \/ (tied_embeddings /\ freeze_embeddings)
          THEN FALSE ELSE lm_head_grad
    /\ fz_pc' = "frozen"
    /\ UNCHANGED <<num_layers, freeze_encoder_layers, freeze_decoder_layers,
                   freeze_embeddings, freeze_lm_head, tied_embeddings,
                   fmVars, cmpVars, evVars, pvVars, dsVars, f1Vars,
                   lateVars>>

----------------------------------------------------------------------------
(* the record F1 of compute_metrics, and its use by evaluate_test2.py *)

\* fractions
Frac(n, d) == [num |-> n, den |-> d]
FracEq(a, b) == a.num * b.den = b.num * a.den
FracAdd(a, b) == Frac(a.num * b.den + b.num * a.den, a.den * b.den)

\* the record sets of one index: absent, empty, one row, two rows, rows
\* that overlap with the others in part, a row twice
F1RecChoices ==
    {None, Some(<<>>), Some(<<TupleRow(<<1>>)>>),
     Some(<<TupleRow(<<1>>), TupleRow(<<2>>)>>),
     Some(<<TupleRow(<<2>>), TupleRow(<<3>>)>>),
     Some(<<TupleRow(<<2>>), TupleRow(<<1>>), TupleRow(<<1>>)>>)}

\* the harmonic mean of precision p and recall r, 0 when both are 0
HarmonicMean(p, r) ==
    IF p.num = 0 /\ r.num = 0 THEN Frac(0, 1)
    ELSE Frac(2 * p.num * r.num, p.num * r.den + r.num * p.den)

\* mutant: an index whose two sets are empty scores 0
RecordF1_BothEmptyZero(gold_rec, pred_rec) ==
    LET G == RecSet(gold_rec)
        P == RecSet(pred_rec)
        I == Cardinality(G \cap P)
    IN  IF G = {} \/ P = {} THEN Frac(0, 1)
        ELSE HarmonicMean(Frac(I, Cardinality(P)), Frac(I, Cardinality(G)))

\* the record F1 of one index: 1 when both row sets are empty, 0 when
\* exactly one is, else the harmonic mean of precision |G n P| / |P| and
\* recall |G n P| / |G|
RecordF1(gold_rec, pred_rec) ==
    LET G == RecSet(gold_rec)
        P == RecSet(pred_rec)
        I == Cardinality(G \cap P)
    IN  IF G = {} /\ P = {} THEN Frac(1, 1)
        ELSE IF G = {} \/ P = {} THEN Frac(0, 1)
        ELSE HarmonicMean(Frac(I, Cardinality(P)), Frac(I, Cardinality(G)))

\* the sum of the first k fractions of a sequence
RECURSIVE FracSum(_, _)
FracSum(scores, k) ==
    IF k = 0 THEN Frac(0, 1) ELSE FracAdd(FracSum(scores, k - 1), scores[k])

\* the mean over all indices
FracMean(scores) ==
    Frac(FracSum(scores, Len(scores)).num,
         FracSum(scores, Len(scores)).den * Len(scores))

\* compute_metrics is not called
F1Idle ==
    /\ f1_pc = "idle" /\ f1_gold = <<>> /\ f1_pred = <<>>
    /\ f1_scores = <<>> /\ f1_mean = None /\ result_f1 = None

\* the gold and the predicted records files of a non-empty split
F1Init ==
    /\ f1_pc = "start"
    /\ \E n \in 1..MaxIndices :
          /\ f1_gold \in [1..n -> F1RecChoices]
          /\ f1_pred \in [1..n -> F1RecChoices]
    /\ f1_scores = <<>> /\ f1_mean = None /\ result_f1 = None

\* compute_metrics(gt_sql_path, model_sql_path, gt_record_path,
\* model_record_path): the record F1 it returns
ComputeMetrics ==
    /\ f1_pc = "start"
    /\ f1_scores' = [k \in 1..Len(f1_gold) |-> RecordF1(f1_gold[k], f1_pred[k])]
    /\ f1_mean' = Some(FracMean(
          [k \in 1..Len(f1_gold) |-> RecordF1(f1_gold[k], f1_pred[k])]))
    /\ f1_pc' = "computed"
    /\ UNCHANGED <<f1_gold, f1_pred, result_f1, fmVars, cmpVars, evVars,
                   pvVars, dsVars, fzVars, lateVars>>

\* results.append({..., 'record_f1': record_f1, ...})
AppendResult ==
    /\ f1_pc = "computed"
    /\ result_f1' = f1_mean
    /\ f1_pc' = "reported"
    /\ UNCHANGED <<f1_gold, f1_pred, f1_scores, f1_mean, fmVars, cmpVars,
                   evVars, pvVars, dsVars, fzVars, lateVars>>

----------------------------------------------------------------------------
(* the error count of evaluate_test2.py and of find_mismatches.py *)

\* a message of the error_msgs list: None, "", a whitespace-only text, a text
ErrMsgChoices == {None, Some(<<>>), Some(<<" ">>), Some(<<"e">>)}

\* sum(1 for msg in error_msgs if msg != "")
RECURSIVE EvalErrorCount(_)
EvalErrorCount(msgs) ==
    IF msgs = <<>> THEN 0
    ELSE (IF Head(msgs) # Some(<<>>) THEN 1 ELSE 0)
         + EvalErrorCount(Tail(msgs))

\* the error_rate of a results row: count / len(error_msgs) if error_msgs
\* else 0, as a fraction
EvalErrorRate(msgs) ==
    IF msgs # <<>>
    THEN [num |-> EvalErrorCount(msgs), den |-> Len(msgs)]
    ELSE [num |-> 0, den |-> 1]

\* n loaded lines; their text does not enter the error count
BlankLines(n) == [k \in 1..n |-> <<>>]

EcIdle ==
    /\ ec_msgs = <<>>
    /\ ec_eval = None
    /\ ec_fm = None

\* the error messages that compute_metrics returned and that the records
\* pickle holds
EcInit ==
    /\ ec_msgs \in SeqsUpTo(ErrMsgChoices, MaxMsgs)
    /\ ec_eval = None
    /\ ec_fm = None

\* evaluate_test2.main: the error_rate of the experiment's results row
CountEvaluate ==
    /\ ec_eval = None
    /\ ec_eval' = Some([count |-> EvalErrorCount(ec_msgs),
                        rate |-> EvalErrorRate(ec_msgs)])
    /\ UNCHANGED <<ec_msgs, ec_fm, fmVars, cmpVars, evVars, pvVars, dsVars,
                   fzVars, f1Vars, giVars, runVars>>

\* find_mismatches.main: the error_queries list and the "SQL Errors" line of
\* the summary, which is printed when error_msgs is truthy
CountFindMismatches ==
    /\ ec_fm = None
    /\ LET n == Len(ec_msgs)
           errs == FindErrorQueries(BlankLines(n), BlankLines(n),
                                    BlankLines(n), Some(ec_msgs))
       IN  ec_fm' = Some([count |-> Len(errs),
                          rate |-> IF Truthy(Some(ec_msgs))
                                   THEN Some(ErrorRate(n, errs))
                                   ELSE None])
    /\ UNCHANGED <<ec_msgs, ec_eval, fmVars, cmpVars, evVars, pvVars, dsVars,
                   fzVars, f1Vars, giVars, runVars>>

----------------------------------------------------------------------------
(* load_data.py : T5Dataset.__getitem__ *)

\* bos_token_id, the id of <extra_id_0>, and the tokenizer's end-of-sequence id
BOS == "bos"
EOS == "eos"
\* ids of the tokens of an SQL text
SqlTokens == {"a", "b"}
\* max_length of the tokenizer calls
max_length == 512

\* tokenizer(text, max_length=512, padding=False, truncation=True): the ids
\* of the text, cut so that the end-of-sequence id still fits, and that id
Tokenizer(text) ==
    Append(SubSeq(text, 1, Min(Len(text), max_length - 1)), EOS)

DecoderInputIds_KeepsLast(decoder_target_ids) ==
    <<BOS>> \o decoder_target_ids

\* torch.cat([torch.tensor([bos_token_id]), decoder_target_ids[:-1]])
DecoderInputIds(decoder_target_ids) ==
    <<BOS>> \o SubSeq(decoder_target_ids, 1, Len(decoder_target_ids) - 1)

GiIdle ==
    /\ gi_split = "test"
    /\ gi_sql_text = None
    /\ gi_item = None

\* an example of a dataset; the test split has no SQL texts
GiInit ==
    /\ gi_split \in Splits
    /\ gi_sql_text \in IF gi_split = "test" THEN {None}
                       ELSE {Some(t) : t \in SeqsUpTo(SqlTokens, MaxTokens)}
    /\ gi_item = None

\* __getitem__(idx); the encoder ids, which no decoder sequence depends on,
\* are left out of the returned tuple
GetItem ==
    /\ gi_item = None
    /\ gi_item' =
         IF gi_split = "test"
         THEN Some([decoder_input_ids |-> None, decoder_target_ids |-> None,
                    initial_decoder_token |-> <<BOS>>])
         ELSE LET decoder_target_ids == Tokenizer(gi_sql_text.val)
              IN  Some([decoder_input_ids |->
                            Some(DecoderInputIds(decoder_target_ids)),
                        decoder_target_ids |-> Some(decoder_target_ids),
                        initial_decoder_token |-> <<BOS>>])
    /\ UNCHANGED <<gi_split, gi_sql_text, fmVars, cmpVars, evVars, pvVars,
                   dsVars, fzVars, f1Vars, ecVars, runVars>>

----------------------------------------------------------------------------
(* find_mismatches.py run again and again for one experiment name *)

\* the error_msgs of a run: none loaded, or one message per example
RunErrChoices == {None} \cup {Some(m) : m \in [1..RunSize -> ErrChoices]}

\* the indices of the mismatches of a run, ascending
RunMismatchChoices ==
    {m \in SeqsUpTo(0..(RunSize - 1), RunSize) :
        \A a, b \in 1..Len(m) : a < b => m[a] < m[b]}

RunIdle ==
    /\ run_no = 0
    /\ run_pc = "idle"
    /\ run_error_msgs = None
    /\ run_error_queries = <<>>
    /\ run_mismatches = <<>>
    /\ mismatches_txt = None
    /\ errors_txt = None

\* before the first run: the mismatches directory holds no report of the
\* experiment
RunInit ==
    /\ run_no = 0
    /\ run_pc = "idle"
    /\ run_error_msgs = None /\ run_error_queries = <<>>
    /\ run_mismatches = <<>>
    /\ mismatches_txt = None /\ errors_txt = None

\* main() up to the summary: the files of the run are loaded and classified
ClassifyRun ==
    /\ run_pc \in {"idle", "done"}
    /\ run_no < MaxRuns
    /\ run_no' = run_no + 1
    /\ \E em \in RunErrChoices, mism \in RunMismatchChoices :
          /\ run_error_msgs' = em
          /\ run_mismatches' = mism
          /\ run_error_queries' =
                FindErrorQueries(BlankLines(RunSize), BlankLines(RunSize),
                                 BlankLines(RunSize), em)
    /\ run_pc' = "classified"
    /\ UNCHANGED <<mismatches_txt, errors_txt, fmVars, cmpVars, evVars,
                   pvVars, dsVars, fzVars, f1Vars, ecVars, giVars>>

\* open(mismatches_path, 'w'): the mismatches report of the run
SaveMismatches ==
    /\ run_pc = "classified"
    /\ mismatches_txt' = Some([run |-> run_no, total |-> RunSize,
                               mismatches |-> run_mismatches])
    /\ run_pc' = "mismatches_saved"
    /\ UNCHANGED <<run_no, run_error_msgs, run_error_queries, run_mismatches,
                   errors_txt, fmVars, cmpVars, evVars, pvVars, dsVars,
                   fzVars, f1Vars, ecVars, giVars>>

\* if error_msgs and error_queries: open(errors_path, 'w'); the console
\* output follows and main() returns
SaveErrors ==
    /\ run_pc = "mismatches_saved"
    /\ errors_txt' =
         IF Truthy(run_error_msgs) /\ run_error_queries # <<>>
         THEN Some([run |-> run_no, total |-> RunSize,
                    entries |-> ErrorEntries(run_error_queries)])
         ELSE errors_txt
    /\ run_pc' = "done"
    /\ UNCHANGED <<run_no, run_error_msgs, run_error_queries, run_mismatches,
                   mismatches_txt, fmVars, cmpVars, evVars, pvVars, dsVars,
                   fzVars, f1Vars, ecVars, giVars>>

----------------------------------------------------------------------------
(* the variable groups that a specification leaves idle *)

\* the variables of the error counts, of __getitem__ and of the repeated runs
LateIdle == EcIdle /\ GiIdle /\ RunIdle

\* the variables outside the three programs' main() are idle
AuxIdle == PvIdle /\ DsIdle /\ FzIdle /\ F1Idle /\ LateIdle

----------------------------------------------------------------------------
(* one run of find_mismatches.py *)

Init == FmInit /\ CmpIdle /\ EvIdle /\ AuxIdle

Next ==
    \/ LoadPredictions
    \/ LoadRecords
    \/ VerifyLengths
    \/ Classify
    \/ PrintSummary
    \/ WriteReports
    \/ PrintDetails

Spec == Init /\ [][Next]_vars

(* the record comparison on every pair of record sets *)

InitCmp == FmIdle /\ CmpInit /\ EvIdle /\ AuxIdle

NextCmp == Compare

SpecCmp == InitCmp /\ [][NextCmp]_vars

(* one run of evaluate_test2.py *)

InitRun == FmIdle /\ CmpIdle /\ EvInit({1}) /\ AuxIdle

NextRun ==
    \/ ResolveExperiments(1)
    \/ CheckCache(1)
    \/ ComputeGold(1)
    \/ WriteCache(1)
    \/ EvaluateExperiment(1)
    \/ PrintResults(1)

SpecRun == InitRun /\ [][NextRun]_vars

(* two instances of evaluate_test2.py running at the same time *)

InitEval == FmIdle /\ CmpIdle /\ EvInit(Inst) /\ AuxIdle

NextEval ==
    \E i \in Inst :
        \/ ResolveExperiments(i)
        \/ CheckCache(i)
        \/ ComputeGold(i)
        \/ WriteCache(i)
        \/ EvaluateExperiment(i)
        \/ PrintResults(i)

SpecEval == InitEval /\ [][NextEval]_vars

(* the record preview on every row list *)

InitPreview ==
    /\ FmIdle /\ CmpIdle /\ EvIdle /\ PvInit /\ DsIdle /\ FzIdle /\ F1Idle
    /\ LateIdle

NextPreview ==
    \/ WritePreview
    \/ PrintPreview

SpecPreview == InitPreview /\ [][NextPreview]_vars

(* a dataset, its loader, and test2_inference over the loader *)

InitData ==
    /\ FmIdle /\ CmpIdle /\ EvIdle /\ PvIdle /\ DsInit /\ FzIdle /\ F1Idle
    /\ LateIdle

NextData ==
    \/ T5DatasetInit
    \/ MakeDataLoader
    \/ InferBatch
    \/ SaveQueries

SpecData == InitData /\ [][NextData]_vars

(* one call of freeze_layers on a freshly initialised model *)

InitFreeze ==
    /\ FmIdle /\ CmpIdle /\ EvIdle /\ PvIdle /\ DsIdle /\ FzInit /\ F1Idle
    /\ LateIdle

NextFreeze == FreezeLayers

SpecFreeze == InitFreeze /\ [][NextFreeze]_vars

(* the record F1 of one compute_metrics call *)

InitF1 ==
    /\ FmIdle /\ CmpIdle /\ EvIdle /\ PvIdle /\ DsIdle /\ FzIdle /\ F1Init
    /\ LateIdle

NextF1 ==
    \/ ComputeMetrics
    \/ AppendResult

SpecF1 == InitF1 /\ [][NextF1]_vars

(* the errors of one message list, counted by both programs *)

InitErrors ==
    /\ FmIdle /\ CmpIdle /\ EvIdle /\ PvIdle /\ DsIdle /\ FzIdle /\ F1Idle
    /\ EcInit /\ GiIdle /\ RunIdle

NextErrors ==
    \/ CountEvaluate
    \/ CountFindMismatches

SpecErrors == InitErrors /\ [][NextErrors]_vars

(* one __getitem__ call on an example of a split *)

InitItem ==
    /\ FmIdle /\ CmpIdle /\ EvIdle /\ PvIdle /\ DsIdle /\ FzIdle /\ F1Idle
    /\ EcIdle /\ GiInit /\ RunIdle

NextItem == GetItem

SpecItem == InitItem /\ [][NextItem]_vars

(* completed runs of find_mismatches.py, one after the other *)

InitRuns ==
    /\ FmIdle /\ CmpIdle /\ EvIdle /\ PvIdle /\ DsIdle /\ FzIdle /\ F1Idle
    /\ EcIdle /\ GiIdle /\ RunInit

NextRuns ==
    \/ ClassifyRun
    \/ SaveMismatches
    \/ SaveErrors

SpecRuns == InitRuns /\ [][NextRuns]_vars

----------------------------------------------------------------------------
(* Properties of find_mismatches.py, checked under Spec *)

N == Len(nl_queries)

\* the example indices (0-based) in the two lists
MismatchIdx == {mismatches[k].i : k \in 1..Len(mismatches)}
ErrorIdx == {error_queries[k].i : k \in 1..Len(error_queries)}

\* main() has passed the length assertions / has built the two lists
PastLengthChecks ==
    pc \in {"verified", "classified", "summarised", "reported", "done", "crashed"}
PastClassify ==
    pc \in {"classified", "summarised", "reported", "done", "crashed"}

\* the predicted query of index k - 1 has a non-empty error message
PredFailed(k) ==
    /\ ~error_msgs.none /\ k <= Len(error_msgs.val)
    /\ ~error_msgs.val[k].none
    /\ \E c \in 1..Len(error_msgs.val[k].val) :
          error_msgs.val[k].val[c] \notin Whitespace

\* NL queries, gold SQL and predicted SQL are not all of one length
SqlLengthsDiffer ==
    ~(Len(nl_queries) = Len(gold_sql) /\ Len(gold_sql) = Len(model_sql))

\* C1: once the two lists are built, in record mode and in SQL-string mode
\* alike, no example index is both in the mismatch list and in the error
\* list, so that match / mismatch / execution error partition the indices.
C1_CategoriesDisjoint == PastClassify => MismatchIdx \cap ErrorIdx = {}

\* C2: in record mode the reported record match rate is the number of
\* indices whose predicted query did not fail and whose gold and predicted
\* row sets are equal, over N: a failed prediction counts as a non-match.
C2_FailedCountsAsNonMatch ==
    (~summary.none /\ summary.val.mode = "record") =>
        summary.val.match_rate =
            [num |-> Cardinality({k \in 1..N :
                        /\ ~PredFailed(k)
                        /\ RecordsEqual(gold_records.val[k], model_records.val[k])}),
             den |-> N]

\* C3: when the NL queries, the gold SQL and the predicted SQL are loaded and
\* are not all of one length, the run gets no further than the assertion
\* that aborts it: no list is built, nothing is reported, no report file is
\* created or written.
C3_LengthMismatchAborts ==
    (pc \notin {"idle", "start", "not_found"} /\ SqlLengthsDiffer) =>
        /\ pc \in {"sql_loaded", "records_loaded", "aborted"}
        /\ mismatches = <<>> /\ error_queries = <<>>
        /\ summary.none /\ mismatches_file.none /\ errors_file.none

\* C3 witness: a run aborted by the assertion on the three SQL/NL lengths
C3_Witness == pc = "aborted" /\ SqlLengthsDiffer /\ Len(model_sql) = MaxN

\* C4: when the run reaches classification, every sequence that was loaded
\* from a records file has exactly N entries (an empty one included).
C4_LoadedSequencesAligned ==
    PastLengthChecks =>
        /\ (gold_rec_file => PyLen(gold_records) = N)
        /\ ((rec_primary \/ rec_alt) =>
               PyLen(model_records) = N /\ PyLen(error_msgs) = N)

\* C7: when the gold records file or the model records file is missing the
\* run does not crash, the mismatch list holds exactly the indices whose
\* gold and predicted SQL differ after stripping, and the SQL match rate is
\* the fraction of indices whose stripped strings are equal.
C7_FallbackComparesSql ==
    (PastClassify /\ (~gold_rec_file \/ ~(rec_primary \/ rec_alt))) =>
        /\ pc # "crashed"
        /\ MismatchIdx = {k - 1 : k \in {j \in 1..N :
                              Strip(gold_sql[j]) # Strip(model_sql[j])}}
        /\ (~summary.none =>
               /\ summary.val.mode = "sql"
               /\ summary.val.match_rate =
                     [num |-> Cardinality({j \in 1..N :
                                 Strip(gold_sql[j]) = Strip(model_sql[j])}),
                      den |-> N])

\* C8: a run that found a prediction file and passed the length checks,
\* whatever N >= 0, prints the total and a match rate (and the error count
\* when error messages are loaded) and writes the mismatches report.
C8_EveryRunReports ==
    PastLengthChecks =>
        /\ pc # "crashed"
        /\ (pc \in {"summarised", "reported", "done"} =>
               /\ ~summary.none /\ summary.val.total = N
               /\ (Truthy(error_msgs) => summary.val.errors_shown))
        /\ (pc \in {"reported", "done"} => ~mismatches_file.none)

\* the entries of a list are in strictly ascending example index, so that
\* no index occurs twice, and each carries the inputs of its index
Ascending(list) ==
    /\ \A j, k \in 1..Len(list) : j < k => list[j].i < list[k].i
    /\ \A k \in 1..Len(list) :
          /\ list[k].i \in 0..(N - 1)
          /\ list[k].nl = nl_queries[list[k].i + 1]
          /\ list[k].gold = gold_sql[list[k].i + 1]
          /\ list[k].pred = model_sql[list[k].i + 1]

\* a report numbers the entries of a list 1..k, in the list's order
Numbered(entries, list) ==
    /\ Len(entries) = Len(list)
    /\ \A k \in 1..Len(list) :
          entries[k].idx = k /\ entries[k].i = list[k].i

\* C12: the mismatch list and the error list are in strictly ascending
\* example index with no index twice, the reports (files and console) number
\* their entries 1..k in that order, and the two lists are determined by
\* the inputs: each is the ascending listing of an index set that the loaded
\* sequences fix.
C12_ListsInSourceOrder ==
    PastClassify =>
        /\ Ascending(mismatches) /\ Ascending(error_queries)
        /\ \A k \in 1..Len(error_queries) :
              error_queries[k].error_msg =
                  error_msgs.val[error_queries[k].i + 1]
        /\ MismatchIdx = {k - 1 : k \in {j \in 1..N :
              IF RecordMode(gold_records, model_records)
              THEN /\ ~PredFailed(j)
                   /\ ~RecordsEqual(gold_records.val[j], model_records.val[j])
              ELSE Strip(gold_sql[j]) # Strip(model_sql[j])}}
        /\ ErrorIdx = {k - 1 : k \in {j \in 1..N : PredFailed(j)}}
        /\ (~mismatches_file.none =>
               Numbered(mismatches_file.val.entries, mismatches))
        /\ (~errors_file.none =>
               Numbered(errors_file.val.entries, error_queries))
        /\ (pc = "done" =>
               \A b \in 1..Len(console) :
                  /\ console[b].block = "errors" =>
                        Numbered(console[b].entries, error_queries)
                  /\ console[b].block = "mismatches" =>
                        Numbered(console[b].entries, mismatches))

\* C12 witness: a finished run that reported two mismatches and two errors
C12_Witness ==
    /\ pc = "done" /\ Len(console) = 2 /\ ~errors_file.none
    /\ Len(mismatches_file.val.entries) = 2
    /\ Len(errors_file.val.entries) = 2

\* a step leaves the six loaded sequences as they are
InputsKept ==
    /\ nl_queries' = nl_queries /\ gold_sql' = gold_sql
    /\ model_sql' = model_sql /\ gold_records' = gold_records
    /\ model_records' = model_records /\ error_msgs' = error_msgs

\* C13: no step from classification to the end of the reports changes a
\* loaded sequence: NL queries, gold SQL, predicted SQL, gold records, model
\* records and error messages stay as they were loaded.
C13_InputsNotModified ==
    [][(pc \in {"verified", "classified", "summarised", "reported"}) =>
          InputsKept]_vars

\* C13 witness: a finished record-mode run over model records with a missing
\* (None) entry, which reported a mismatch and an error
C13_Witness ==
    /\ pc = "done" /\ RecordMode(gold_records, model_records)
    /\ \E k \in 1..Len(model_records.val) : model_records.val[k].none
    /\ mismatches # <<>> /\ ~errors_file.none

\* C14: when the predicted SQL is at neither path the run ends with the
\* 'not found' message that names both paths; no records are loaded, no
\* list is built, no rate is computed, and no report file is written.
C14_NotFoundStops ==
    /\ (pc # "start" /\ ~sql_primary /\ ~sql_alt) =>
          /\ pc = "not_found"
          /\ console = <<[block |-> "not_found",
                          tried |-> <<"results", "model_output">>]>>
          /\ gold_records.none /\ model_records.none /\ error_msgs.none
          /\ mismatches = <<>> /\ error_queries = <<>>
          /\ summary.none /\ mismatches_file.none /\ errors_file.none
    /\ pc = "not_found" => ~sql_primary /\ ~sql_alt

\* C14 witness: the run ended with 'not found' although both records files
\* exist
C14_Witness ==
    /\ pc = "not_found" /\ gold_rec_file /\ rec_primary
    /\ Len(console) = 1 /\ console[1].block = "not_found"

\* a loaded list of per-index values with entry j replaced by v; an absent
\* or empty list has no entry to replace
WithEntry(list, j, v) ==
    IF Truthy(list) THEN Some([list.val EXCEPT ![j] = v]) ELSE list

\* the indices (0-based) listed as mismatches and as execution errors
\* under given inputs
Categories(nl, gs, ms, gr, mr, em) ==
    LET mm == FindMismatches(nl, gs, ms, gr, mr, em)
        eq == FindErrorQueries(nl, gs, ms, em)
    IN  [mismatch |-> {mm[k].i : k \in 1..Len(mm)},
         error |-> {eq[k].i : k \in 1..Len(eq)}]

\* C15: the category of index i depends on the i-th entries only: replacing
\* the gold SQL, the predicted SQL, the record sets and the error message of
\* another index j by any other values leaves every index i # j in the
\* category the run gave it.
C15_IndexIndependent ==
    pc = "classified" =>
        \A j \in 1..N :
        \A g \in GoldSqlChoices, p \in PredSqlChoices, gr \in GoldRecChoices,
           mr \in PredRecChoices, e \in ErrChoices :
            LET c == Categories(nl_queries, [gold_sql EXCEPT ![j] = g],
                                [model_sql EXCEPT ![j] = p],
                                WithEntry(gold_records, j, gr),
                                WithEntry(model_records, j, mr),
                                WithEntry(error_msgs, j, e))
            IN  /\ c.mismatch \ {j - 1} = MismatchIdx \ {j - 1}
                /\ c.error \ {j - 1} = ErrorIdx \ {j - 1}

\* C15 witness: a record-mode run over two examples whose first prediction
\* failed and whose second one is a mismatch
C15_Witness ==
    /\ pc = "classified" /\ RecordMode(gold_records, model_records)
    /\ N = 2 /\ ErrorIdx = {0} /\ MismatchIdx = {1}

----------------------------------------------------------------------------
(* Properties of the record comparison, checked under SpecCmp *)

\* the set of row tuples of a record set; an absent one has none
RowTuples(rec) == IF rec.none THEN {} ELSE {rec.val[k].vals : k \in 1..Len(rec.val)}

\* a present record set with at least one row
HasRows(rec) == ~rec.none /\ Len(rec.val) >= 1

\* C5: the comparison is reflexive and symmetric and depends only on the
\* set of row tuples of each side: replacing either side by a record set
\* with the same row tuples (rows permuted, rows duplicated) leaves the
\* result as it is.
C5_ComparesRowSets ==
    cmp_result # "none" =>
        /\ (cmp_gold = cmp_pred => cmp_result = "equal")
        /\ (RecordsEqual(cmp_pred, cmp_gold) <=> cmp_result = "equal")
        /\ \A c \in RecordLists :
              /\ (RowTuples(c) = RowTuples(cmp_gold) =>
                    (RecordsEqual(c, cmp_pred) <=> cmp_result = "equal"))
              /\ (RowTuples(c) = RowTuples(cmp_pred) =>
                    (RecordsEqual(cmp_gold, c) <=> cmp_result = "equal"))

\* C5 witness: gold [(1,),(2,)] against predicted [(2,),(1,)] compared equal
C5_Witness ==
    /\ cmp_result = "equal"
    /\ cmp_gold = Some(<<TupleRow(<<1>>), TupleRow(<<2>>)>>)
    /\ cmp_pred = Some(<<TupleRow(<<2>>), TupleRow(<<1>>)>>)

\* C6: None and [] are both the empty set: they compare equal to each other
\* and to themselves, and unequal to every record set with a row.
C6_AbsentIsEmpty ==
    cmp_result # "none" =>
        /\ (~HasRows(cmp_gold) /\ ~HasRows(cmp_pred) => cmp_result = "equal")
        /\ (~HasRows(cmp_gold) /\ HasRows(cmp_pred) => cmp_result = "differ")
        /\ (HasRows(cmp_gold) /\ ~HasRows(cmp_pred) => cmp_result = "differ")

\* C6 witness: None against [] compared equal
C6_Witness == cmp_result = "equal" /\ cmp_gold = None /\ cmp_pred = Some(<<>>)

----------------------------------------------------------------------------
(* Properties of evaluate_test2.py *)

\* C9 (under SpecEval): of two instances running at the same time at most
\* one writes the gold cache file.
C9_AtMostOneWriter == Len(cache_log) <= 1

\* C10 (under SpecRun): one run writes the gold cache at most once, only
\* after its check saw no file and before its first experiment, never over
\* a file that exists, and every experiment's metrics read that one cache.
C10_GoldCacheOnce ==
    /\ Len(cache_log) <= 1
    /\ \A k \in 1..Len(cache_log) :
          /\ ~cache_log[k].existed
          /\ ~saw_cache[cache_log[k].by]
          /\ cache_log[k].evaluated = 0
    /\ (gold_local[1] => ~saw_cache[1])
    /\ \A k \in 1..Len(results[1]) :
          results[1][k].gold.exists /\ results[1][k].gold = cache

\* C10 witness: a finished run that created the cache and then evaluated
\* MaxExps experiments against it
C10_Witness ==
    /\ epc[1] = "done" /\ Len(results[1]) = MaxExps
    /\ Len(cache_log) = 1 /\ cache.by = 1

\* the pair a result row stands for
ResultPair(r) == <<r.model_type, r.experiment>>

\* how often x occurs in a sequence
Occurrences(seq, x) == Cardinality({k \in 1..Len(seq) : seq[k] = x})

\* C20 (under SpecRun): without --experiments the run evaluates every
\* directory with a best_model.pt, each exactly once; with names, each name
\* resolves to at most one pair, ft_experiments before scr_experiments; and
\* when nothing resolves the run stops at 'No experiments found!' with no
\* gold cache created, no model loaded and no prediction file written.
C20_EvaluatesEachOnce ==
    /\ (epc[1] # "start" /\ exp_args.none) =>
          /\ Range(experiments[1]) = ckpt
          /\ Len(experiments[1]) = Cardinality(ckpt)
          /\ (epc[1] \in {"done", "crashed"} =>
                 /\ Len(results[1]) = Len(experiments[1])
                 /\ \A k \in 1..Len(results[1]) :
                       ResultPair(results[1][k]) =
                          <<ModelTypeShort(experiments[1][k][1]),
                            experiments[1][k][2]>>)
    /\ (epc[1] # "start" /\ ~exp_args.none) =>
          /\ \A n \in ExpNames :
                Cardinality({k \in 1..Len(experiments[1]) :
                                experiments[1][k][2] = n})
                = (IF \E t \in 1..2 : <<ModelTypes[t], n>> \in ckpt
                   THEN Occurrences(exp_args.val, n) ELSE 0)
          /\ \A k \in 1..Len(experiments[1]) :
                /\ experiments[1][k] \in ckpt
                /\ experiments[1][k][1] = ModelTypes[2] =>
                      <<ModelTypes[1], experiments[1][k][2]>> \notin ckpt
    /\ (epc[1] # "start" /\ experiments[1] = <<>>) =>
          /\ epc[1] = "no_experiments"
          /\ cache_log = <<>> /\ cache.gen = 0 /\ ~gold_local[1]
          /\ loaded_models[1] = <<>> /\ pred_files = {}
          /\ results[1] = <<>>
    /\ epc[1] = "no_experiments" => experiments[1] = <<>>

----------------------------------------------------------------------------
(* Properties of the record preview, checked under SpecPreview *)

\* preview p of the row list rec shows its first min(L, n) rows in order,
\* the row count L, the "more rows" line exactly when L > n with K = L - n,
\* and "(empty)" exactly when the list is empty or absent
PreviewShows(rec, p, n) ==
    LET L == IF rec.none THEN 0 ELSE Len(rec.val)
    IN  /\ Len(p.rows) = Min(L, n)
        /\ \A k \in 1..Len(p.rows) : p.rows[k] = rec.val[k]
        /\ p.more.shown <=> L > n
        /\ p.more.shown => p.more.k = L - n
        /\ p.count = L
        /\ p.empty <=> L = 0

\* C11: the preview of a row list of length L shows exactly its first
\* min(L, N) rows, N = 10 in the mismatches file and N = 5 on the console;
\* the "(K more rows)" line is present iff L > N, with K = L - N; an empty
\* or absent side is "(empty)" with a row count of 0
C11_PreviewTruncates ==
    /\ ~pv_file.none => PreviewShows(pv_rec, pv_file.val, 10)
    /\ ~pv_console.none => PreviewShows(pv_rec, pv_console.val, 5)

\* a list of exactly 10 rows has been previewed both ways: the whole list
\* in the file without a suffix, five rows and "(5 more rows)" on the console
C11_Witness ==
    /\ ~pv_rec.none /\ Len(pv_rec.val) = 10
    /\ ~pv_file.none /\ ~pv_file.val.more.shown /\ Len(pv_file.val.rows) = 10
    /\ ~pv_console.none /\ pv_console.val.more.shown
    /\ pv_console.val.more.k = 5

----------------------------------------------------------------------------
(* Properties of the dataset, the loader and test2_inference, checked under
   SpecData *)

\* the loader serves the examples in file order
InFileOrder == loader_order = [k \in 1..Len(loader_order) |-> k]

\* C16: test2_inference over the loader of the test2 split saves and returns
\* exactly one predicted SQL string per example, in file order, so that
\* prediction k is the model's output for line k; no split other than
\* 'train' is served in another order than the file's.
C16_OnePredictionPerExample ==
    /\ (dpc \in {"loaded", "saved", "unpack_failed"} /\ split # "train") =>
          InFileOrder
    /\ (split = "test2" /\ dpc \in {"saved", "unpack_failed"}) =>
          /\ ~saved_sql.none
          /\ saved_sql.val.file = [k \in 1..nl_file |-> Generated(k)]
          /\ saved_sql.val.returned = [k \in 1..nl_file |-> Generated(k)]

\* C17: for a split other than 'test' whose two files differ in their
\* number of lines the construction ends in the assertion and no loader
\* exists, so no example is served; for 'test' no SQL is loaded and the
\* construction succeeds; a built dataset has as many examples as the NL
\* file has lines.
C17_DatasetLengthsChecked ==
    /\ (dpc # "start" /\ split # "test" /\ nl_file # sql_file) =>
          /\ dpc = "assert_failed"
          /\ loader_order = <<>> /\ consumed = 0 /\ saved_sql.none
    /\ (dpc # "start" /\ split = "test") =>
          sql_texts.none /\ dpc # "assert_failed"
    /\ dpc \in {"built", "loaded", "unpack_failed", "saved"} =>
          /\ DatasetLen(nl_texts) = nl_file
          /\ (dpc # "built" => Len(loader_order) = nl_file)

\* C17 witness: the test2 split with two NL lines and three SQL lines ended
\* in the assertion
C17_Witness ==
    /\ dpc = "assert_failed" /\ split = "test2"
    /\ nl_file = 2 /\ sql_file = 3

\* C21: every batch of the loader of the test2 split has the three
\* components that test2_inference unpacks, and the inference loop over that
\* loader never fails on a batch.
C21_Test2BatchesUnpack ==
    /\ (split = "test2" /\ dpc \in {"loaded", "saved", "unpack_failed"}
        /\ Len(loader_order) > 0) => UnpackOk(CollateArity(split))
    /\ split = "test2" => dpc # "unpack_failed"

----------------------------------------------------------------------------
(* Properties of the record F1, checked under SpecF1 *)

\* the F1 of index k as the claim states it
ClaimedF1(k) ==
    LET G == RowTuples(f1_gold[k])
        P == RowTuples(f1_pred[k])
    IN  IF G = {} /\ P = {} THEN Frac(1, 1)
        ELSE IF G = {} \/ P = {} THEN Frac(0, 1)
        ELSE Frac(2 * Cardinality(G \cap P), Cardinality(G) + Cardinality(P))

RECURSIVE ClaimedSum(_)
ClaimedSum(k) ==
    IF k = 0 THEN Frac(0, 1) ELSE FracAdd(ClaimedSum(k - 1), ClaimedF1(k))

\* C18: the record F1 of an index is 1 when the gold and the predicted row
\* sets are both empty, 0 when exactly one is empty, and otherwise
\* 2 |G n P| / (|G| + |P|); the record_f1 that evaluate_test2 reports is the
\* mean of these values over all indices.
C18_RecordF1 ==
    /\ f1_pc \in {"computed", "reported"} =>
          /\ Len(f1_scores) = Len(f1_gold)
          /\ \A k \in 1..Len(f1_scores) :
                f1_scores[k].den > 0 /\ FracEq(f1_scores[k], ClaimedF1(k))
          /\ f1_mean.val.den > 0
          /\ FracEq(f1_mean.val,
                    Frac(ClaimedSum(Len(f1_gold)).num,
                         ClaimedSum(Len(f1_gold)).den * Len(f1_gold)))
    /\ f1_pc = "reported" => result_f1 = f1_mean

\* C18 witness: two indices, the first with no rows on either side (absent
\* and empty), the second with one common row out of two on each side: the
\* reported record F1 is (1 + 1/2) / 2
C18_Witness ==
    /\ f1_pc = "reported" /\ Len(f1_gold) = 2
    /\ f1_gold[1].none /\ f1_pred[1] = Some(<<>>)
    /\ f1_gold[2] = Some(<<TupleRow(<<1>>), TupleRow(<<2>>)>>)
    /\ f1_pred[2] = Some(<<TupleRow(<<2>>), TupleRow(<<3>>)>>)
    /\ FracEq(result_f1.val, Frac(3, 4))

----------------------------------------------------------------------------
(* Properties of freeze_layers, checked under SpecFreeze *)

\* the blocks that are frozen
FrozenSet(grad) == {i \in DOMAIN grad : ~grad[i]}

\* the blocks the documentation says an argument freezes: all for None,
\* those of the list for a list (none for the empty list)
DocumentedFrozen(arg, n) ==
    IF arg.kind = "none" THEN 0..(n - 1) ELSE arg.idx \cap (0..(n - 1))

\* C19: after freeze_layers on a fully trainable model, None has frozen all
\* encoder (decoder) blocks, an empty list none, and a non-empty list
\* exactly the blocks whose 0-based index is in the list.
C19_FreezeSelection ==
    fz_pc = "frozen" =>
        /\ freeze_encoder_layers.kind \in {"none", "list"} =>
              FrozenSet(enc_grad) =
                 DocumentedFrozen(freeze_encoder_layers, num_layers)
        /\ freeze_decoder_layers.kind \in {"none", "list"} =>
              FrozenSet(dec_grad) =
                 DocumentedFrozen(freeze_decoder_layers, num_layers)

----------------------------------------------------------------------------
(* Properties of the two error counts, checked under SpecErrors *)

\* C22: for every list of error messages, evaluate_test2 and find_mismatches
\* count the same number of execution errors, and report the same error rate
\* for a non-empty list.
C22_SameErrorCount ==
    (~ec_eval.none /\ ~ec_fm.none) =>
        /\ ec_eval.val.count = ec_fm.val.count
        /\ ec_msgs # <<>> =>
              ec_eval.val.rate.num * ec_fm.val.rate.val.den
                  = ec_fm.val.rate.val.num * ec_eval.val.rate.den

----------------------------------------------------------------------------
(* Properties of T5Dataset.__getitem__, checked under SpecItem *)

\* C25: for an example of a split other than test, the decoder inputs that
\* __getitem__ returns are the decoder targets shifted right by one behind
\* the BOS token: the two have the same length, the first input is BOS, and
\* every later input is the target one position before it.
C25_DecoderInputsShifted ==
    (gi_split # "test" /\ ~gi_item.none) =>
        LET decoder_input_ids == gi_item.val.decoder_input_ids.val
            decoder_target_ids == gi_item.val.decoder_target_ids.val
        IN  /\ Len(decoder_input_ids) = Len(decoder_target_ids)
            /\ decoder_input_ids[1] = BOS
            /\ \A k \in 1..(Len(decoder_target_ids) - 1) :
                  decoder_input_ids[k + 1] = decoder_target_ids[k]

\* an item of a non-test example whose SQL text has several tokens
C25_Witness ==
    /\ gi_split # "test"
    /\ ~gi_item.none
    /\ Len(gi_item.val.decoder_target_ids.val) >= 3

----------------------------------------------------------------------------
(* Properties of repeated find_mismatches runs, checked under SpecRuns *)

\* C24: after every completed run, the mismatches file is the one that this
\* run wrote, and the error file, if there is one, lists the errors of this
\* run and of no earlier run.
C24_ReportsOfLatestRun ==
    run_pc = "done" =>
        /\ ~mismatches_txt.none /\ mismatches_txt.val.run = run_no
        /\ errors_txt.none \/ errors_txt.val.run = run_no

----------------------------------------------------------------------------
(* Properties of the locations find_mismatches.py loads from, under Spec *)

\* C23: in a run that has loaded the predicted SQL and the predicted
\* records, both come from the primary location (results/ and records/) or
\* both come from the fallback location (model_output/).
C23_SameLocation ==
    (pc \notin {"start", "not_found"} /\ ~model_records.none) =>
        ((model_sql_path = "results") <=> (model_record_path = "records"))

====
